---- MODULE Spec2Model ----
(***************************************************************************)
(* Byte-pair-encoding trainer and encoder of                               *)
(* packages/tokenizer/benchmark_rust/src/main.rs.                          *)
(*                                                                         *)
(* Token ids are u32, pair frequencies are i32.  A Pair is the tuple       *)
(* <<left, right>>, a Word is the sequence of its ids, a frequency map is  *)
(* a function whose domain is the set of pairs present in the map.         *)
(* The table has at most num_merges < 2^31 - 256 rules (num_merges is an   *)
(* i32), so 256 + merges.len() never reaches 2^32 and the u32 sum is the   *)
(* integer sum.                                                            *)
(***************************************************************************)
EXTENDS Integers, Sequences, FiniteSets, TLC

\* ------------------------------------------------------------------ bounds
MaxWordLen == 4
MaxWords == 2
MaxCount == 2
MaxMerges == 3
MaxTextLen == 3
MaxIterations == 1
\* the inputs of count_pairs_parallel taken alone
MaxCountWords == 3
MaxCountWordLen == 2
\* the inputs of merge_pair taken alone
MaxMergeWordLen == 5
\* count_pairs_parallel on longer Words
MaxLongWords == 2
MaxLongWordLen == 3
\* the inputs of the encoder taken alone
MaxEncRules == 2
MaxEncTextLen == 3
\* encoders running at once over one table
NumEncoders == 2
MaxConcTextLen == 2

\* --------------------------------------------------------------- constants
BaseVocab == 256
\* let vocab_size = 300
ProgramVocab == 300

\* the byte values that occur in the modelled corpora and texts ('a', 'b')
Bytes == {97, 98}

\* vocab_size ranges from just below the base vocabulary to MaxMerges above it
VocabSizes == (BaseVocab - 1)..(BaseVocab + MaxMerges)

\* Option<Pair>::None
None == <<>>

VARIABLES
    word_counts,  \* HashMap<String, i32>: its (word, count) entries in the
                  \* order its iteration yields them
    words,        \* Vec<Word>: the ids of each distinct training word
    counts,       \* Vec<i32>: the occurrence count of each word
    vocab_size,
    num_merges,
    merges,       \* Vec<Pair>: the merge table
    iter,         \* number of iterations of the training `for` begun so far
    pc,           \* position in main
    mapped,       \* count phase: word indices whose map closure has run
    partials,     \* count phase: partial maps not yet reduced
    pair_counts,  \* result of count_pairs_parallel in this iteration
    best_pair,    \* Option<Pair> chosen in this iteration
    new_id,       \* the id substituted in this iteration
    widx,         \* merge phase: index of the next word to rewrite
    step_words,   \* history: the words as they were when the iteration began
    applied,      \* history: per word, the number of rules applied to it
    assigned,     \* history: the new_id used for each rule of the table
    test_text,    \* the bytes to encode
    iteration,    \* number of iterations of the encoding `for` begun so far
    tokens,       \* encode: the current token sequence
    ridx,         \* encode: index of the next rule of the table to apply
    enc_ids,      \* history: the new_id computed for each rule in this encode
    enc_matched,  \* history: some rule matched a pair in this encode
    c_text,       \* concurrent encoders: the text of each invocation
    c_tokens,     \* concurrent encoders: the tokens of each invocation
    c_ridx,       \* concurrent encoders: the next rule of each invocation
    c_pc          \* concurrent encoders: the position of each invocation

vars == <<word_counts, words, counts, vocab_size, num_merges, merges, iter, pc,
          mapped, partials, pair_counts, best_pair, new_id, widx, step_words,
          applied, assigned, test_text, iteration, tokens, ridx, enc_ids,
          enc_matched, c_text, c_tokens, c_ridx, c_pc>>

trainVars == <<word_counts, words, counts, vocab_size, num_merges, merges, iter,
               mapped, partials, pair_counts, best_pair, new_id, widx,
               step_words, applied, assigned>>

encVars == <<test_text, iteration, tokens, ridx, enc_ids, enc_matched>>

concVars == <<c_text, c_tokens, c_ridx, c_pc>>

\* ----------------------------------------------------------------- helpers
EmptyMap == [p \in {} |-> 0]

Get(m, k) == IF k \in DOMAIN m THEN m[k] ELSE 0

\* *m.entry(k).or_default() += v
AddTo(m, k, v) == [p \in DOMAIN m \cup {k} |-> Get(m, p) + (IF p = k THEN v ELSE 0)]

\* Word::pairs: ids.windows(2).map(|w| (w[0], w[1]))
\* the pairs of a Word closed into a ring: the last token paired with the first
WordPairsRing(ids) ==
    [j \in 1..Len(ids) |-> <<ids[j], ids[IF j = Len(ids) THEN 1 ELSE j + 1]>>]

WordPairs(ids) == [j \in 1..(Len(ids) - 1) |-> <<ids[j], ids[j + 1]>>]

\* merge_pair's loop testing only the left token of the pair
RECURSIVE MergeLoopLeftOnly(_, _, _, _, _, _)
MergeLoopLeftOnly(ids, a, b, nid, i, out) ==
    IF i > Len(ids) THEN out
    ELSE IF i + 1 <= Len(ids) /\ ids[i] = a
         THEN MergeLoopLeftOnly(ids, a, b, nid, i + 2, Append(out, nid))
         ELSE MergeLoopLeftOnly(ids, a, b, nid, i + 1, Append(out, ids[i]))

\* merge_pair's loop advancing one position after a match
RECURSIVE MergeLoopOverlap(_, _, _, _, _, _)
MergeLoopOverlap(ids, a, b, nid, i, out) ==
    IF i > Len(ids) THEN out
    ELSE IF i + 1 <= Len(ids) /\ ids[i] = a /\ ids[i + 1] = b
         THEN MergeLoopOverlap(ids, a, b, nid, i + 1, Append(out, nid))
         ELSE MergeLoopOverlap(ids, a, b, nid, i + 1, Append(out, ids[i]))

\* merge_pair's loop with the bound test `i + 2 < n`
RECURSIVE MergeLoopMissesLast(_, _, _, _, _, _)
MergeLoopMissesLast(ids, a, b, nid, i, out) ==
    IF i > Len(ids) THEN out
    ELSE IF i + 2 <= Len(ids) /\ ids[i] = a /\ ids[i + 1] = b
         THEN MergeLoopMissesLast(ids, a, b, nid, i + 2, Append(out, nid))
         ELSE MergeLoopMissesLast(ids, a, b, nid, i + 1, Append(out, ids[i]))

\* Word::merge_pair, the while loop; i is the 1-based scan position
RECURSIVE MergeLoop(_, _, _, _, _, _)
MergeLoop(ids, a, b, nid, i, out) ==
    IF i > Len(ids) THEN out
    ELSE IF i + 1 <= Len(ids) /\ ids[i] = a /\ ids[i + 1] = b
         THEN MergeLoop(ids, a, b, nid, i + 2, Append(out, nid))
         ELSE MergeLoop(ids, a, b, nid, i + 1, Append(out, ids[i]))

\* merge_pair without the final `self.ids = out`
MergePairNotStored(ids, pair, nid) == ids

\* merge_pair with the early return `self.ids.len() <= 2`
MergePairShortReturn(ids, pair, nid) ==
    IF Len(ids) <= 2 THEN ids
    ELSE MergeLoop(ids, pair[1], pair[2], nid, 1, <<>>)

\* Word::merge_pair
MergePair(ids, pair, nid) ==
    IF Len(ids) < 2 THEN ids
    ELSE MergeLoop(ids, pair[1], pair[2], nid, 1, <<>>)

\* the map closure of count_pairs_parallel for word w with count c
RECURSIVE LocalFold(_, _, _, _)
LocalFold(m, ps, j, c) ==
    IF j > Len(ps) THEN m ELSE LocalFold(AddTo(m, ps[j], c), ps, j + 1, c)

\* the map closure without the test `counts[i] != 0`
LocalPcNoZeroGuard(w, c) ==
    IF Len(w) >= 2 THEN LocalFold(EmptyMap, WordPairs(w), 1, c)
    ELSE EmptyMap

\* the map closure with the length test `> 2`
LocalPcSkipsTwo(w, c) ==
    IF Len(w) > 2 /\ c # 0 THEN LocalFold(EmptyMap, WordPairs(w), 1, c)
    ELSE EmptyMap

LocalPc(w, c) ==
    IF Len(w) >= 2 /\ c # 0 THEN LocalFold(EmptyMap, WordPairs(w), 1, c)
    ELSE EmptyMap

\* the reduce closure storing v instead of adding it
ReduceOpOverwrite(acc, m) ==
    [k \in DOMAIN acc \cup DOMAIN m |-> IF k \in DOMAIN m THEN m[k] ELSE acc[k]]

\* the reduce closure of count_pairs_parallel
ReduceOp(acc, m) == [k \in DOMAIN acc \cup DOMAIN m |-> Get(acc, k) + Get(m, k)]

\* every order in which a hash map may yield the members of S
RECURSIVE Perms(_)
Perms(S) ==
    IF S = {} THEN {<<>>}
    ELSE UNION {{<<x>> \o p : p \in Perms(S \ {x})} : x \in S}

\* Iterator::max_by_key over the entries in the order given: the last
\* maximal element wins
RECURSIVE MaxByKey(_, _, _, _)
MaxByKey(order, m, j, best) ==
    IF j > Len(order) THEN best
    ELSE IF best = None \/ m[order[j]] >= m[best]
         THEN MaxByKey(order, m, j + 1, order[j])
         ELSE MaxByKey(order, m, j + 1, best)

\* merges.iter().position(|&p| p == pair), 0-based; -1 when absent
RECURSIVE PositionFrom(_, _, _)
PositionFrom(s, x, j) ==
    IF j > Len(s) THEN -1
    ELSE IF s[j] = x THEN j - 1 ELSE PositionFrom(s, x, j + 1)

\* the position taken as 1-based
PositionOneBased(s, x) == PositionFrom(s, x, 1) + 1

Position(s, x) == PositionFrom(s, x, 1)

\* -------------------------------------------------------------------- Init
WordStrings == UNION {[1..n -> Bytes] : n \in 1..MaxWordLen}

\* the keys of word_counts in the order the hash map yields them
Corpora ==
    UNION {{ws \in [1..n -> WordStrings] :
               \A i, j \in 1..n : i # j => ws[i] # ws[j]} : n \in 0..MaxWords}

Texts == UNION {[1..n -> Bytes] : n \in 0..MaxTextLen}

\* num_merges taken as the distance between vocab_size and 256
NumMergesAbs(v) == IF v < BaseVocab THEN BaseVocab - v ELSE v - BaseVocab

\* let num_merges = vocab_size - 256 (i32)
NumMerges(v) == v - BaseVocab

\* the locals of the encoding loop before it is reached, no concurrent encoder
EncIdle ==
    /\ test_text = <<>>
    /\ iteration = 0
    /\ tokens = <<>>
    /\ ridx = 1
    /\ enc_ids = <<>>
    /\ enc_matched = FALSE
    /\ c_text = <<>>
    /\ c_tokens = <<>>
    /\ c_ridx = <<>>
    /\ c_pc = <<>>

InitWith(vs) ==
    /\ \E ws \in Corpora : \E cs \in [1..Len(ws) -> 1..MaxCount] :
          word_counts = [i \in 1..Len(ws) |-> <<ws[i], cs[i]>>]
    /\ words = [i \in 1..Len(word_counts) |-> word_counts[i][1]]
    /\ counts = [i \in 1..Len(word_counts) |-> word_counts[i][2]]
    /\ vocab_size \in vs
    /\ num_merges = NumMerges(vocab_size)
    /\ merges = <<>>
    /\ iter = 0
    /\ pc = "for"
    /\ mapped = {}
    /\ partials = <<>>
    /\ pair_counts = EmptyMap
    /\ best_pair = None
    /\ new_id = 0
    /\ widx = 1
    /\ step_words = words
    /\ applied = [i \in 1..Len(words) |-> 0]
    /\ assigned = <<>>
    /\ EncIdle

Init == InitWith(VocabSizes)

\* ---------------------------------------------------------------- training
\* the range taken as 0..=num_merges
RangeHasNextInclusive == iter <= num_merges

\* a loop whose range is never exhausted
RangeNeverEnds == TRUE

\* 0..num_merges has another item after `iter` of them
RangeHasNext == iter < num_merges

\* for _ in 0..num_merges: the range yields another item
ForNext ==
    /\ pc = "for"
    /\ RangeHasNext
    /\ iter' = iter + 1
    /\ pc' = "count"
    /\ mapped' = {}
    /\ partials' = <<>>
    /\ step_words' = words
    /\ UNCHANGED <<word_counts, words, counts, vocab_size, num_merges, merges, pair_counts,
                   best_pair, new_id, widx, applied, assigned>>
    /\ UNCHANGED encVars
    /\ UNCHANGED concVars

\* for _ in 0..num_merges: the range is exhausted (or empty)
ForEnd ==
    /\ pc = "for"
    /\ ~RangeHasNext
    /\ pc' = "trained"
    /\ UNCHANGED trainVars
    /\ UNCHANGED encVars
    /\ UNCHANGED concVars

\* count_pairs_parallel: the map closure runs for one word
MapWord(i) ==
    /\ pc = "count"
    /\ i \in (1..Len(words)) \ mapped
    /\ mapped' = mapped \cup {i}
    /\ partials' = Append(partials, ReduceOp(EmptyMap, LocalPc(words[i], counts[i])))
    /\ UNCHANGED <<word_counts, words, counts, vocab_size, num_merges, merges, iter, pc,
                   pair_counts, best_pair, new_id, widx, step_words, applied,
                   assigned>>
    /\ UNCHANGED encVars
    /\ UNCHANGED concVars

\* the partial maps other than the i-th and the j-th, in order
RECURSIVE Others(_, _, _, _)
Others(s, i, j, k) ==
    IF k > Len(s) THEN <<>>
    ELSE IF k = i \/ k = j THEN Others(s, i, j, k + 1)
         ELSE <<s[k]>> \o Others(s, i, j, k + 1)

\* count_pairs_parallel: the reduce closure joins two partial maps.  rayon
\* joins the results of neighbouring index ranges, left operand first; the
\* model admits every pair of partial maps, in either order.
ReduceTwo(i, j) ==
    /\ pc = "count"
    /\ i \in 1..Len(partials)
    /\ j \in 1..Len(partials)
    /\ i # j
    /\ partials' = Append(Others(partials, i, j, 1), ReduceOp(partials[i], partials[j]))
    /\ UNCHANGED <<word_counts, words, counts, vocab_size, num_merges, merges, iter, pc,
                   mapped, pair_counts, best_pair, new_id, widx, step_words,
                   applied, assigned>>
    /\ UNCHANGED encVars
    /\ UNCHANGED concVars

\* the reduction returning before every word is mapped
ReduceCompleteEarly == Len(partials) <= 1

\* the reduction has one result: every word is mapped and every partial joined
ReduceComplete == mapped = 1..Len(words) /\ Len(partials) <= 1

\* count_pairs_parallel returns
CountReturn ==
    /\ pc = "count"
    /\ ReduceComplete
    /\ pair_counts' = IF partials = <<>> THEN EmptyMap ELSE partials[1]
    /\ partials' = <<>>
    /\ pc' = "select"
    /\ UNCHANGED <<word_counts, words, counts, vocab_size, num_merges, merges, iter, mapped,
                   best_pair, new_id, widx, step_words, applied, assigned>>
    /\ UNCHANGED encVars
    /\ UNCHANGED concVars

\* best_pair = pair_counts.iter().max_by_key(..).map(..), in some hash order
Selections(m) == {MaxByKey(order, m, 1, None) : order \in Perms(DOMAIN m)}

\* new_id read after merges.push(pair)
NewIdAfterPush == BaseVocab + Len(merges) + 1

\* new ids handed out from the top of the vocabulary downwards
NewIdFromTop == vocab_size - 1 - Len(merges)

\* let new_id = 256 + merges.len() as u32, evaluated before the push
NewId == BaseVocab + Len(merges)

\* if let Some(pair) = best_pair { new_id = ..; merges.push(pair); .. }
SelectSome ==
    /\ pc = "select"
    /\ \E bp \in Selections(pair_counts) :
        /\ bp # None
        /\ best_pair' = bp
        /\ new_id' = NewId
        /\ merges' = Append(merges, bp)
        /\ assigned' = Append(assigned, NewId)
    /\ widx' = 1
    /\ pc' = "merge"
    /\ UNCHANGED <<word_counts, words, counts, vocab_size, num_merges, iter, mapped,
                   partials, pair_counts, step_words, applied>>
    /\ UNCHANGED encVars
    /\ UNCHANGED concVars

\* else { break }
SelectNone ==
    /\ pc = "select"
    /\ None \in Selections(pair_counts)
    /\ best_pair' = None
    /\ pc' = "trained"
    /\ UNCHANGED <<word_counts, words, counts, vocab_size, num_merges, merges, iter, mapped,
                   partials, pair_counts, new_id, widx, step_words, applied,
                   assigned>>
    /\ UNCHANGED encVars
    /\ UNCHANGED concVars

\* for word in &mut words { word.merge_pair(pair, new_id) }: one word
MergeWord ==
    /\ pc = "merge"
    /\ widx <= Len(words)
    /\ words' = [words EXCEPT ![widx] = MergePair(words[widx], best_pair, new_id)]
    /\ applied' = [applied EXCEPT ![widx] = applied[widx] + 1]
    /\ widx' = widx + 1
    /\ UNCHANGED <<word_counts, counts, vocab_size, num_merges, merges, iter, pc, mapped,
                   partials, pair_counts, best_pair, new_id, step_words,
                   assigned>>
    /\ UNCHANGED encVars
    /\ UNCHANGED concVars

\* the last word is rewritten: back to the head of the for
MergeEnd ==
    /\ pc = "merge"
    /\ widx > Len(words)
    /\ pc' = "for"
    /\ UNCHANGED trainVars
    /\ UNCHANGED encVars
    /\ UNCHANGED concVars

\* ---------------------------------------------------------------- encoding
\* let test_text = ..
EncodeSetup ==
    /\ pc = "trained"
    /\ test_text' \in Texts
    /\ iteration' = 0
    /\ pc' = "enc_for"
    /\ UNCHANGED <<tokens, ridx, enc_ids, enc_matched>>
    /\ UNCHANGED trainVars
    /\ UNCHANGED concVars

\* for _ in 0..iterations: tokens = test_text.bytes().map(|b| b as u32)
EncodeNext ==
    /\ pc = "enc_for"
    /\ iteration < MaxIterations
    /\ iteration' = iteration + 1
    /\ tokens' = test_text
    /\ ridx' = 1
    /\ enc_ids' = <<>>
    /\ enc_matched' = FALSE
    /\ pc' = "enc_rule"
    /\ UNCHANGED test_text
    /\ UNCHANGED trainVars
    /\ UNCHANGED concVars

\* the test of the encoder's pass succeeds at some position:
\* tokens[i] == pair.0 && tokens[i + 1] == pair.1
Matches(toks, pair) ==
    \E i \in 1..(Len(toks) - 1) : toks[i] = pair[1] /\ toks[i + 1] = pair[2]

\* the encoder's greedy pass (the same loop as merge_pair, without its
\* early return)
EncodePass(toks, pair, nid) == MergeLoop(toks, pair[1], pair[2], nid, 1, <<>>)

\* for &pair in &merges { new_id = 256 + position; ..; tokens = new_tokens }
EncodeRule ==
    /\ pc = "enc_rule"
    /\ ridx <= Len(merges)
    /\ LET pair == merges[ridx]
           nid == BaseVocab + Position(merges, pair)
       IN /\ tokens' = EncodePass(tokens, pair, nid)
          /\ enc_ids' = Append(enc_ids, nid)
          /\ enc_matched' = (enc_matched \/ Matches(tokens, pair))
    /\ ridx' = ridx + 1
    /\ UNCHANGED <<test_text, iteration, pc>>
    /\ UNCHANGED trainVars
    /\ UNCHANGED concVars

\* every rule of the table has been applied
EncodeRulesEnd ==
    /\ pc = "enc_rule"
    /\ ridx > Len(merges)
    /\ pc' = "enc_for"
    /\ UNCHANGED encVars
    /\ UNCHANGED trainVars
    /\ UNCHANGED concVars

\* for _ in 0..iterations: the range is exhausted
EncodeEnd ==
    /\ pc = "enc_for"
    /\ ~(iteration < MaxIterations)
    /\ pc' = "finished"
    /\ UNCHANGED encVars
    /\ UNCHANGED trainVars
    /\ UNCHANGED concVars

\* -------------------------------------------------------------------- Spec
Next ==
    \/ ForNext
    \/ ForEnd
    \/ \E i \in 1..Len(words) : MapWord(i)
    \/ \E i, j \in 1..Len(partials) : ReduceTwo(i, j)
    \/ CountReturn
    \/ SelectSome
    \/ SelectNone
    \/ MergeWord
    \/ MergeEnd
    \/ EncodeSetup
    \/ EncodeNext
    \/ EncodeRule
    \/ EncodeRulesEnd
    \/ EncodeEnd

Spec == Init /\ [][Next]_vars

\* the training loop alone, for termination
NextTrain ==
    \/ ForNext
    \/ ForEnd
    \/ \E i \in 1..Len(words) : MapWord(i)
    \/ \E i, j \in 1..Len(partials) : ReduceTwo(i, j)
    \/ CountReturn
    \/ SelectSome
    \/ SelectNone
    \/ MergeWord
    \/ MergeEnd

TrainSpec == Init /\ [][NextTrain]_vars

\* training with vocab_size = 0 and the program's vocab_size = 300 among the
\* vocabulary sizes
WideInit == InitWith(VocabSizes \cup {0, ProgramVocab})

WideTrainSpec == WideInit /\ [][NextTrain]_vars

\* main runs on one thread and the parallel reduction is a blocking call that
\* returns: a step that can be taken is taken
FairTrainSpec == Init /\ [][NextTrain]_vars /\ WF_vars(NextTrain)

\* ------------------------------------------- count_pairs_parallel, alone
\* words of 0..MaxCountWordLen ids, repeated words allowed
CountWordStrings == UNION {[1..n -> Bytes] : n \in 0..MaxCountWordLen}

\* i32 counts: negative, zero and positive
CountValues == {-1, 0, 1, 2}

CountInitWith(strings, nwords) ==
    /\ word_counts = <<>>
    /\ words \in UNION {[1..n -> strings] : n \in 0..nwords}
    /\ counts \in [1..Len(words) -> CountValues]
    /\ vocab_size = BaseVocab + 1
    /\ num_merges = 1
    /\ merges = <<>>
    /\ iter = 1
    /\ pc = "count"
    /\ mapped = {}
    /\ partials = <<>>
    /\ pair_counts = EmptyMap
    /\ best_pair = None
    /\ new_id = 0
    /\ widx = 1
    /\ step_words = words
    /\ applied = [i \in 1..Len(words) |-> 0]
    /\ assigned = <<>>
    /\ EncIdle

NextCount ==
    \/ \E i \in 1..Len(words) : MapWord(i)
    \/ \E i, j \in 1..Len(partials) : ReduceTwo(i, j)
    \/ CountReturn

CountInit == CountInitWith(CountWordStrings, MaxCountWords)

SpecCount == CountInit /\ [][NextCount]_vars

\* count_pairs_parallel alone, on fewer and longer words
LongWordStrings == UNION {[1..n -> Bytes] : n \in 0..MaxLongWordLen}

LongCountInit == CountInitWith(LongWordStrings, MaxLongWords)

SpecCountLong == LongCountInit /\ [][NextCount]_vars

\* --------------------------------------------------- Word::merge_pair, alone
MergeTokens == Bytes \cup {BaseVocab}

MergeWordStrings == UNION {[1..n -> MergeTokens] : n \in 0..MaxMergeWordLen}

MergeInit ==
    /\ word_counts = <<>>
    /\ words \in [1..1 -> MergeWordStrings]
    /\ best_pair \in MergeTokens \X MergeTokens
    /\ new_id \in MergeTokens \cup {BaseVocab + 1}
    /\ counts = <<1>>
    /\ vocab_size = BaseVocab + 1
    /\ num_merges = 1
    /\ merges = <<best_pair>>
    /\ iter = 1
    /\ pc = "merge"
    /\ mapped = {}
    /\ partials = <<>>
    /\ pair_counts = EmptyMap
    /\ widx = 1
    /\ step_words = words
    /\ applied = <<0>>
    /\ assigned = <<new_id>>
    /\ EncIdle

NextMerge == MergeWord

SpecMerge == MergeInit /\ [][NextMerge]_vars

\* ------------------------------------------------------- the encoder, alone
\* any table: pairs over bytes and merge ids, a pair possibly more than once
EncTokens == Bytes \cup {BaseVocab, BaseVocab + 1}

EncTables == UNION {[1..n -> EncTokens \X EncTokens] : n \in 0..MaxEncRules}

EncTexts == UNION {[1..n -> Bytes] : n \in 0..MaxEncTextLen}

\* the locals of training once a table `merges` of any origin is in place
TrainedWith ==
    /\ word_counts = <<>>
    /\ words = <<>>
    /\ counts = <<>>
    /\ vocab_size = BaseVocab + Len(merges)
    /\ num_merges = Len(merges)
    /\ iter = Len(merges)
    /\ mapped = {}
    /\ partials = <<>>
    /\ pair_counts = EmptyMap
    /\ best_pair = None
    /\ new_id = 0
    /\ widx = 1
    /\ step_words = <<>>
    /\ applied = <<>>
    /\ assigned = [i \in 1..Len(merges) |-> BaseVocab + (i - 1)]

EncodeInit ==
    /\ merges \in EncTables
    /\ TrainedWith
    /\ pc = "enc_for"
    /\ test_text \in EncTexts
    /\ iteration = 0
    /\ tokens = <<>>
    /\ ridx = 1
    /\ enc_ids = <<>>
    /\ enc_matched = FALSE
    /\ c_text = <<>>
    /\ c_tokens = <<>>
    /\ c_ridx = <<>>
    /\ c_pc = <<>>

NextEncode ==
    \/ EncodeNext
    \/ EncodeRule
    \/ EncodeRulesEnd
    \/ EncodeEnd

SpecEncode == EncodeInit /\ [][NextEncode]_vars

\* ---------------------------------------- encoders sharing a finished table
\* Each invocation runs the body of the encode loop with locals of its own
\* (tokens, the rule index, new_tokens) and reads `merges` through a shared
\* reference; the invocations' steps interleave freely.
Encoders == 1..NumEncoders

ConcTexts == UNION {[1..n -> Bytes] : n \in 0..MaxConcTextLen}

\* every invocation working on the first invocation's buffer
ConcTokensShared(e) == c_tokens[1]

\* the `tokens` local of invocation e
ConcTokens(e) == c_tokens[e]

ConcInit ==
    /\ merges \in EncTables
    /\ TrainedWith
    /\ pc = "enc_for"
    /\ test_text = <<>>
    /\ iteration = 0
    /\ tokens = <<>>
    /\ ridx = 1
    /\ enc_ids = <<>>
    /\ enc_matched = FALSE
    /\ c_text \in [Encoders -> ConcTexts]
    /\ c_tokens = [e \in Encoders |-> <<>>]
    /\ c_ridx = [e \in Encoders |-> 1]
    /\ c_pc = [e \in Encoders |-> "start"]

\* let mut tokens = text.bytes().map(|b| b as u32).collect()
ConcStart(e) ==
    /\ c_pc[e] = "start"
    /\ c_tokens' = [c_tokens EXCEPT ![e] = c_text[e]]
    /\ c_ridx' = [c_ridx EXCEPT ![e] = 1]
    /\ c_pc' = [c_pc EXCEPT ![e] = "rules"]
    /\ UNCHANGED c_text
    /\ UNCHANGED <<pc, trainVars, encVars>>

\* for &pair in &merges { new_id = 256 + position; ..; tokens = new_tokens }
ConcRule(e) ==
    /\ c_pc[e] = "rules"
    /\ c_ridx[e] <= Len(merges)
    /\ LET pair == merges[c_ridx[e]]
           nid == BaseVocab + Position(merges, pair)
       IN c_tokens' = [c_tokens EXCEPT ![e] = EncodePass(ConcTokens(e), pair, nid)]
    /\ c_ridx' = [c_ridx EXCEPT ![e] = c_ridx[e] + 1]
    /\ UNCHANGED <<c_text, c_pc>>
    /\ UNCHANGED <<pc, trainVars, encVars>>

\* every rule of the table has been applied by invocation e
ConcEnd(e) ==
    /\ c_pc[e] = "rules"
    /\ c_ridx[e] > Len(merges)
    /\ c_pc' = [c_pc EXCEPT ![e] = "done"]
    /\ UNCHANGED <<c_text, c_tokens, c_ridx>>
    /\ UNCHANGED <<pc, trainVars, encVars>>

NextConc ==
    \/ \E e \in Encoders : ConcStart(e)
    \/ \E e \in Encoders : ConcRule(e)
    \/ \E e \in Encoders : ConcEnd(e)

SpecConc == ConcInit /\ [][NextConc]_vars

\* ------------------------------------------- training from a list of texts
\* the byte of the space character, at which split_whitespace cuts
Space == 32

\* the text "aaab"
Aaab == <<97, 97, 97, 98>>

\* the text "ab a"
AbA == <<97, 98, Space, 97>>

MaxTexts == 3

\* training_texts: up to MaxTexts texts
TrainingTexts == UNION {[1..n -> {Aaab, AbA}] : n \in 0..MaxTexts}

\* text.split_whitespace(): the maximal runs of bytes other than whitespace
RECURSIVE SplitFrom(_, _, _)
SplitFrom(text, j, cur) ==
    IF j > Len(text) THEN (IF cur = <<>> THEN <<>> ELSE <<cur>>)
    ELSE IF text[j] = Space
         THEN (IF cur = <<>> THEN <<>> ELSE <<cur>>) \o SplitFrom(text, j + 1, <<>>)
         ELSE SplitFrom(text, j + 1, Append(cur, text[j]))

SplitWhitespace(text) == SplitFrom(text, 1, <<>>)

\* for text in &training_texts { for word in text.split_whitespace() {
\*     *word_counts.entry(word.to_string()).or_default() += 1 } }
RECURSIVE CollectWords(_, _, _)
CollectWords(texts, t, m) ==
    IF t > Len(texts) THEN m
    ELSE CollectWords(texts, t + 1, LocalFold(m, SplitWhitespace(texts[t]), 1, 1))

\* the state before the training loop, word_counts built from the texts and
\* iterated in some hash order (keys() and values() in the same order)
TextInit ==
    /\ \E texts \in TrainingTexts :
          LET m == CollectWords(texts, 1, EmptyMap) IN
          \E order \in Perms(DOMAIN m) :
             word_counts = [i \in 1..Len(order) |-> <<order[i], m[order[i]]>>]
    /\ words = [i \in 1..Len(word_counts) |-> word_counts[i][1]]
    /\ counts = [i \in 1..Len(word_counts) |-> word_counts[i][2]]
    /\ vocab_size \in VocabSizes
    /\ num_merges = NumMerges(vocab_size)
    /\ merges = <<>>
    /\ iter = 0
    /\ pc = "for"
    /\ mapped = {}
    /\ partials = <<>>
    /\ pair_counts = EmptyMap
    /\ best_pair = None
    /\ new_id = 0
    /\ widx = 1
    /\ step_words = words
    /\ applied = [i \in 1..Len(words) |-> 0]
    /\ assigned = <<>>
    /\ EncIdle

TextTrainSpec == TextInit /\ [][NextTrain]_vars

\* ------------------------------------------------------------------ claims
\* the pair occurs at some adjacent position of ids
Occurs(pair, ids) ==
    \E j \in 1..(Len(ids) - 1) : ids[j] = pair[1] /\ ids[j + 1] = pair[2]

Max0(n) == IF n > 0 THEN n ELSE 0

Range(f) == {f[x] : x \in DOMAIN f}

\* the training loop is over
Done == pc \notin {"for", "count", "select", "merge"}

\* a single sequential pass over the words with one accumulator
RECURSIVE SeqCountFrom(_, _, _, _)
SeqCountFrom(m, ws, cs, i) ==
    IF i > Len(ws) THEN m
    ELSE SeqCountFrom(IF Len(ws[i]) >= 2 /\ cs[i] # 0
                      THEN LocalFold(m, WordPairs(ws[i]), 1, cs[i])
                      ELSE m,
                      ws, cs, i + 1)

SeqCount(ws, cs) == SeqCountFrom(EmptyMap, ws, cs, 1)

\* (l1, r1) <= (l2, r2) in tuple order
TupleLeq(p, q) == p[1] < q[1] \/ (p[1] = q[1] /\ p[2] <= q[2])

\* the smallest pair among those of maximal frequency, None for the empty map
SmallestMaxPair(m) ==
    IF DOMAIN m = {} THEN None
    ELSE CHOOSE p \in DOMAIN m :
             /\ \A q \in DOMAIN m : m[q] <= m[p]
             /\ \A q \in DOMAIN m : m[q] = m[p] => TupleLeq(p, q)

C2_NewIdIsIndex ==
    /\ [](/\ Len(assigned) = Len(merges)
          /\ \A i \in 1..Len(assigned) : assigned[i] = BaseVocab + (i - 1)
          /\ \A i, j \in 1..Len(assigned) : i < j => assigned[i] < assigned[j]
          /\ pc = "merge" =>
                /\ new_id = assigned[Len(assigned)]
                /\ \A j \in 1..(widx - 1) :
                      words[j] = MergePair(step_words[j], merges[Len(merges)],
                                           BaseVocab + Len(merges) - 1))
    /\ [][/\ Len(merges') >= Len(merges)
          /\ SubSeq(merges', 1, Len(merges)) = merges
          /\ SubSeq(assigned', 1, Len(assigned)) = assigned]_vars

C2_Witness ==
    /\ pc = "merge"
    /\ Len(merges) >= 2
    /\ widx > Len(words)
    /\ \E j \in 1..Len(words) : new_id \in Range(words[j])

\* C3: whatever the order in which the words are mapped and the partial maps
\* joined, count_pairs_parallel returns the map of a sequential single pass.
C3_ParallelEqualsSequential ==
    pc = "select" => pair_counts = SeqCount(words, counts)

C3_Witness ==
    /\ pc = "select"
    /\ Len(words) = 3
    /\ \E p \in DOMAIN pair_counts :
          /\ \A i \in 1..3 : counts[i] # 0 /\ Occurs(p, words[i])
          /\ pair_counts[p] # 0

\* C4: the selected pair is the smallest pair, in tuple order, among those of
\* maximal frequency, whatever the order in which the map yields its entries.
C4_SelectionIsSmallestMax ==
    pc = "merge" => best_pair = SmallestMaxPair(pair_counts)

C6_PhasesOrdered ==
    /\ pc \in {"count", "select"} => words = step_words
    /\ pc \in {"select", "merge"} => pair_counts = SeqCount(step_words, counts)
    /\ pc = "merge" =>
          /\ best_pair \in DOMAIN pair_counts
          /\ \A q \in DOMAIN pair_counts : pair_counts[q] <= pair_counts[best_pair]
          /\ \A j \in 1..Len(words) :
                IF j < widx
                THEN /\ applied[j] = Len(merges)
                     /\ words[j] = MergePair(step_words[j], best_pair, new_id)
                ELSE /\ applied[j] = Len(merges) - 1
                     /\ words[j] = step_words[j]
    /\ pc # "merge" => \A j \in 1..Len(words) : applied[j] = Len(merges)

C6_Witness ==
    /\ pc = "merge"
    /\ Len(merges) = 2
    /\ Len(words) = 2
    /\ widx = 2
    /\ words[1] # step_words[1]
    /\ Occurs(best_pair, words[2])

\* C7: merge_pair leaves a word in which the pair is nowhere adjacent as it
\* was, whatever the new id, words of length 0 and 1 included.
C7_NoMatchIdentity ==
    (pc = "merge" /\ widx = 2 /\ ~Occurs(best_pair, step_words[1]))
        => words[1] = step_words[1]

C7_Witness ==
    /\ pc = "merge"
    /\ widx = 2
    /\ ~Occurs(best_pair, step_words[1])
    /\ Len(step_words[1]) >= 3
    /\ step_words[1][1] = best_pair[1]
    /\ step_words[1][3] = best_pair[2]
    /\ new_id \in Range(step_words[1])

\* C8: no step makes a word longer, and the step that rewrites a word in
\* which the selected pair is adjacent makes it strictly shorter.
C8_LengthShrinks ==
    [][\A j \in 1..Len(words) :
          /\ Len(words'[j]) <= Len(words[j])
          /\ (pc = "merge" /\ widx = j /\ widx' = j + 1
                /\ Occurs(best_pair, words[j]))
             => Len(words'[j]) < Len(words[j])]_vars

C8_Witness ==
    /\ pc = "merge"
    /\ Len(words) = 2
    /\ widx = 3
    /\ Len(merges) >= 2
    /\ Len(words[1]) < Len(step_words[1])
    /\ Len(words[2]) = Len(step_words[2])

\* C9: a word to which rule r has been applied has the pair of rule r nowhere
\* adjacent, then and after every later step.
C9_PairGone ==
    \A j \in 1..Len(words) : \A r \in 1..applied[j] : ~Occurs(merges[r], words[j])

C9_Witness ==
    /\ Len(merges) = 3
    /\ merges[1][1] = merges[1][2]
    /\ \E j \in 1..Len(words) :
          /\ applied[j] = 3
          /\ Len(words[j]) >= 2
          /\ BaseVocab + 2 \in Range(words[j])

\* C10: no pair is in the table twice, and the id the encoder finds by
\* searching the table for the pair of the rule it applies is 256 + the
\* rule's own index.
C10_NoDuplicatePairs ==
    /\ \A i, j \in 1..Len(merges) : i # j => merges[i] # merges[j]
    /\ \A r \in 1..Len(enc_ids) : enc_ids[r] = BaseVocab + (r - 1)

C10_Witness ==
    /\ pc = "enc_rule"
    /\ Len(merges) = 3
    /\ Len(enc_ids) = 3
    /\ BaseVocab + 1 \in Range(tokens)

\* the text after the first k rules of table m, one pass per rule, alone
RECURSIVE EncodePrefix(_, _, _)
EncodePrefix(text, m, k) ==
    IF k = 0 THEN text
    ELSE EncodePass(EncodePrefix(text, m, k - 1), m[k],
                    BaseVocab + Position(m, m[k]))

\* C11: the tokens of an encode are never more than the bytes of the text,
\* and are fewer once a rule has matched an adjacent pair.
C11_EncodeShrinks ==
    (pc \in {"enc_for", "enc_rule", "finished"} /\ iteration >= 1) =>
        /\ Len(tokens) <= Len(test_text)
        /\ enc_matched => Len(tokens) < Len(test_text)

C11_Witness ==
    /\ pc = "enc_for"
    /\ iteration >= 1
    /\ enc_matched
    /\ Len(test_text) = 3
    /\ Len(tokens) = 1
    /\ Len(merges) = 2

C13_StopsOnEmptyMapping ==
    /\ [](/\ pc = "select" =>
                (DOMAIN pair_counts = {} <=>
                    \A j \in 1..Len(words) : counts[j] = 0 \/ Len(words[j]) < 2)
          /\ pc = "merge" => DOMAIN pair_counts # {}
          /\ (pc = "trained" /\ iter = Len(merges) + 1) =>
                /\ DOMAIN pair_counts = {}
                /\ best_pair = None
                /\ words = step_words
                /\ Len(merges) < num_merges
                /\ \A j \in 1..Len(words) : applied[j] = Len(merges)
          /\ (Done /\ vocab_size > BaseVocab /\ word_counts = <<>>) =>
                (merges = <<>> /\ iter = 1))
    /\ [][(pc = "select" /\ DOMAIN pair_counts = {}) =>
             (pc' = "trained" /\ merges' = merges /\ words' = words)]_vars

C13_Witness ==
    /\ pc = "trained"
    /\ vocab_size = ProgramVocab
    /\ iter = Len(merges) + 1
    /\ Len(merges) >= 3
    /\ Len(words) = 2

C13_WitnessEmpty ==
    /\ pc = "trained"
    /\ vocab_size = ProgramVocab
    /\ word_counts = <<>>
    /\ merges = <<>>

\* C14: with vocab_size <= 256 no iteration of the training loop is begun:
\* nothing is counted, nothing is selected, no word is rewritten, and the
\* table stays empty.
C14_NoMergesAtOrBelowBase ==
    vocab_size <= BaseVocab =>
        /\ iter = 0
        /\ pc \notin {"count", "select", "merge"}
        /\ merges = <<>>
        /\ mapped = {}
        /\ pair_counts = EmptyMap
        /\ best_pair = None
        /\ words = [j \in 1..Len(word_counts) |-> word_counts[j][1]]
        /\ \A j \in 1..Len(words) : applied[j] = 0

C14_Witness ==
    /\ pc = "trained"
    /\ vocab_size < BaseVocab
    /\ num_merges < 0
    /\ Len(words) = 2
    /\ Len(words[1]) >= 2

\* C15: training on the texts ["aaab", "aaab", "aaab"] with vocab_size = 258
\* counts (97, 97) six times in the first step and learns it as rule 256;
\* in the second step (97, 98) and (256, 97) are both counted three times and
\* (97, 98) is learned as rule 257; the finished table has exactly these two
\* rules.
C15_AaabTable ==
    (word_counts = << <<Aaab, 3>> >> /\ vocab_size = BaseVocab + 2) =>
        /\ (pc = "select" /\ iter = 1) =>
              (\A p \in DOMAIN pair_counts : pair_counts[p] <= 6)
              /\ Get(pair_counts, <<97, 97>>) = 6
        /\ Len(merges) >= 1 => (merges[1] = <<97, 97>> /\ assigned[1] = BaseVocab)
        /\ (pc = "select" /\ iter = 2) =>
              /\ pair_counts = (<<97, 98>> :> 3) @@ (<<BaseVocab, 97>> :> 3)
        /\ Len(merges) >= 2 => (merges[2] = <<97, 98>> /\ assigned[2] = BaseVocab + 1)
        /\ Done => Len(merges) = 2

\* C15 without the tie-break: the second rule is one of the two tied pairs
C15_AaabTableEitherTie ==
    (word_counts = << <<Aaab, 3>> >> /\ vocab_size = BaseVocab + 2) =>
        /\ (pc = "select" /\ iter = 1) =>
              (\A p \in DOMAIN pair_counts : pair_counts[p] <= 6)
              /\ Get(pair_counts, <<97, 97>>) = 6
        /\ Len(merges) >= 1 => (merges[1] = <<97, 97>> /\ assigned[1] = BaseVocab)
        /\ (pc = "select" /\ iter = 2) =>
              /\ pair_counts = (<<97, 98>> :> 3) @@ (<<BaseVocab, 97>> :> 3)
        /\ Len(merges) >= 2 =>
              (merges[2] \in {<<97, 98>>, <<BaseVocab, 97>>} /\ assigned[2] = BaseVocab + 1)
        /\ Done => Len(merges) = 2

\* the number of positions j with (ids[j], ids[j + 1]) = p
Positions(p, ids) ==
    Cardinality({j \in 1..(Len(ids) - 1) : ids[j] = p[1] /\ ids[j + 1] = p[2]})

\* sum over i of cs[i] * Positions(p, ws[i])
RECURSIVE WeightedSum(_, _, _, _)
WeightedSum(p, ws, cs, i) ==
    IF i > Len(ws) THEN 0
    ELSE cs[i] * Positions(p, ws[i]) + WeightedSum(p, ws, cs, i + 1)

\* C16: the returned mapping gives every pair p the sum over i of
\* counts[i] * (number of positions of p in words[i], overlaps included), a
\* pair outside the mapping standing for 0; the pairs in the mapping are
\* exactly those adjacent in a Word of nonzero count (such a Word has 2 or
\* more tokens).
C16_CounterIsWeightedSum ==
    pc = "select" =>
        /\ \A p \in Bytes \X Bytes :
              Get(pair_counts, p) = WeightedSum(p, words, counts, 1)
        /\ DOMAIN pair_counts =
              {p \in Bytes \X Bytes :
                  \E i \in 1..Len(words) : counts[i] # 0 /\ Occurs(p, words[i])}

C16_Witness ==
    /\ pc = "select"
    /\ Len(words) = 2
    /\ \E p \in DOMAIN pair_counts :
          /\ Positions(p, words[1]) = 2
          /\ pair_counts[p] = 2 * counts[1]
    /\ counts[2] = 0
    /\ Len(words[2]) >= 2
    /\ \E q \in Bytes \X Bytes : Occurs(q, words[2]) /\ q \notin DOMAIN pair_counts

\* position j starts a match of the greedy scan: the pair stands at j and
\* ids[j] is not the right half of a match started at j - 1
RECURSIVE Taken(_, _, _)
Taken(ids, p, j) ==
    /\ j >= 1
    /\ j < Len(ids)
    /\ ids[j] = p[1]
    /\ ids[j + 1] = p[2]
    /\ ~Taken(ids, p, j - 1)

\* the positions that are not the right half of a match
Scanned(ids, p) == {j \in 1..Len(ids) : ~Taken(ids, p, j - 1)}

\* the reference scan: one token per scanned position, in order, the new id
\* where a match starts and the token itself elsewhere
GreedyScan(ids, p, nid) ==
    LET S == Scanned(ids, p)
        At(k) == CHOOSE j \in S : Cardinality({x \in S : x <= j}) = k
    IN  [k \in 1..Cardinality(S) |->
            IF Taken(ids, p, At(k)) THEN nid ELSE ids[At(k)]]

\* C17: merge_pair returns the left-to-right greedy non-overlapping scan of
\* the Word; for a pair (a, a) a Word of k tokens a becomes k / 2 copies of
\* the new id followed by k mod 2 copies of a.
C17_MergeIsGreedyScan ==
    (pc = "merge" /\ widx = 2) =>
        /\ words[1] = GreedyScan(step_words[1], best_pair, new_id)
        /\ \A a \in MergeTokens :
              (best_pair = <<a, a>> /\ Range(step_words[1]) \subseteq {a}) =>
                 LET k == Len(step_words[1]) IN
                 words[1] = [j \in 1..((k \div 2) + (k % 2)) |->
                                IF j <= k \div 2 THEN new_id ELSE a]

C17_Witness ==
    /\ pc = "merge"
    /\ widx = 2
    /\ best_pair[1] = best_pair[2]
    /\ Len(step_words[1]) = 5
    /\ Range(step_words[1]) = {best_pair[1]}
    /\ new_id # best_pair[1]
    /\ words[1] = <<new_id, new_id, best_pair[1]>>

\* C18: training and encoding agree.  The Word of a training word to which k
\* rules have been applied is the encoding of the word's bytes by the first k
\* rules; the encoder holds that encoding after its k-th rule; so an encode of
\* a training word's bytes that has applied every rule holds the tokens of
\* the word's Word at the end of training.
C18_TrainEncodeAgree ==
    /\ \A j \in 1..Len(word_counts) :
          words[j] = EncodePrefix(word_counts[j][1], merges, applied[j])
    /\ pc = "enc_rule" => tokens = EncodePrefix(test_text, merges, ridx - 1)
    /\ (iteration >= 1 /\ (pc \in {"enc_for", "finished"} \/ ridx = Len(merges) + 1)) =>
          \A j \in 1..Len(word_counts) :
             test_text = word_counts[j][1] => tokens = words[j]

C18_Witness ==
    /\ pc = "finished"
    /\ Len(merges) >= 2
    /\ Len(tokens) = 1
    /\ \E j \in 1..Len(word_counts) :
          /\ test_text = word_counts[j][1]
          /\ Len(test_text) = 3
          /\ applied[j] = Len(merges)
          /\ tokens = words[j]

\* C19: every token of every Word is below 256 + Len(merges), and both
\* components of the i-th rule (counted from 0) are below 256 + i.
C19_IdsBelowTable ==
    /\ \A j \in 1..Len(words) : \A t \in Range(words[j]) :
          t < BaseVocab + Len(merges)
    /\ \A i \in 1..Len(merges) :
          /\ merges[i][1] < BaseVocab + (i - 1)
          /\ merges[i][2] < BaseVocab + (i - 1)

C19_Witness ==
    /\ Len(merges) = 3
    /\ BaseVocab + 1 \in Range(merges[3])
    /\ \E j \in 1..Len(words) : BaseVocab + 2 \in Range(words[j])

\* the number of tokens summed over all Words
RECURSIVE TotalTokens(_, _)
TotalTokens(ws, i) ==
    IF i > Len(ws) THEN 0 ELSE Len(ws[i]) + TotalTokens(ws, i + 1)

\* C20: the pair of a step that appends a rule is adjacent, at the start of
\* the step, in a Word of nonzero count; once the step has rewritten every
\* Word the total number of tokens is smaller than at its start; no step
\* changes the counts or the number of Words.
C20_StepShrinksTotal ==
    /\ [](/\ pc = "merge" =>
                \E j \in 1..Len(words) :
                   counts[j] # 0 /\ Occurs(best_pair, step_words[j])
          /\ ((pc = "merge" /\ widx > Len(words)) \/ (pc = "for" /\ iter >= 1)) =>
                /\ TotalTokens(words, 1) < TotalTokens(step_words, 1)
                /\ \E j \in 1..Len(words) : words[j] # step_words[j])
    /\ [][counts' = counts /\ Len(words') = Len(words)]_vars

C20_Witness ==
    /\ pc = "merge"
    /\ widx > Len(words)
    /\ Len(words) = 2
    /\ Len(merges) = 2
    /\ words[1] = step_words[1]
    /\ Len(words[2]) + 2 = Len(step_words[2])
    /\ counts[1] # counts[2]
====
